---- MODULE Spec2Model ----
(***************************************************************************)
(* Model of src/src/generators/static-theme.ts: the site-catalogue DSL     *)
(* parser and formatter, the URL-specificity resolver and the static       *)
(* stylesheet generator.  Texts are TLA+ strings handled character by      *)
(* character, so that splitting, trimming and case conversion are          *)
(* computed the way the source computes them.                              *)
(***************************************************************************)
EXTENDS Integers, Sequences, FiniteSets, TLC

VARIABLES
    pc,            \* which call has been made: "init", "parsed", "formatted", ...
    text,          \* argument of parseUrlSelectorConfig
    parsed,        \* outcome of parseUrlSelectorConfig
    staticThemes,  \* catalogue argument of formatUrlSelectorConfig / getThemeFor
    formatted,     \* outcome of formatUrlSelectorConfig
    accepted,      \* patterns the external matcher accepts for the page url
    config,        \* FilterConfig argument of createStaticStylesheet
    siteTheme,     \* outcome of getThemeFor: index into staticThemes, 0 = null
    css            \* outcome of createStaticStylesheet

vars == <<pc, text, parsed, staticThemes, formatted, accepted, config, siteTheme, css>>

----------------------------------------------------------------------------
(* Bounds of the model *)

MaxLines == 3
MaxThemes == 3
MaxGenThemes == 2

----------------------------------------------------------------------------
(* JavaScript string primitives *)

UpperCaseLetters == "ABCDEFGHIJKLMNOPQRSTUVWXYZ"
LowerCaseLetters == "abcdefghijklmnopqrstuvwxyz"
Digits == "0123456789"

CharsOf(s) == {SubSeq(s, i, i) : i \in 1..Len(s)}

IndexIn(c, s) == CHOOSE i \in 1..Len(s) : SubSeq(s, i, i) = c

\* String.prototype.trim strips these (the model's texts hold no other blanks)
WhiteSpace == {" ", "\t", "\n", "\r"}

\* s with every character in the domain of f replaced by its image
\* (String.prototype.replace with a one-character pattern and the g flag);
\* halving keeps the recursion shallow
RECURSIVE ReplaceChars(_, _)
ReplaceChars(f, s) ==
    IF s = "" THEN ""
    ELSE IF Len(s) = 1 THEN (IF s \in DOMAIN f THEN f[s] ELSE s)
    ELSE LET h == Len(s) \div 2
         IN ReplaceChars(f, SubSeq(s, 1, h))
            \o ReplaceChars(f, SubSeq(s, h + 1, Len(s)))

\* s with every character outside keep removed (replace(/[^...]/g, ''))
RECURSIVE KeepChars(_, _)
KeepChars(keep, s) ==
    IF s = "" THEN ""
    ELSE IF Len(s) = 1 THEN (IF s \in keep THEN s ELSE "")
    ELSE LET h == Len(s) \div 2
         IN KeepChars(keep, SubSeq(s, 1, h))
            \o KeepChars(keep, SubSeq(s, h + 1, Len(s)))

\* the positions of s, in increasing order
Positions(s) == [i \in 1..Len(s) |-> i]

\* the pieces of s around the separators starting at from[k] and ending at to[k]
Pieces(s, from, to) ==
    [k \in 1..(Len(from) + 1) |->
        SubSeq(s, IF k = 1 THEN 1 ELSE to[k - 1] + 1,
                  IF k = Len(from) + 1 THEN Len(s) ELSE from[k] - 1)]

LowerCaseOf ==
    [c \in CharsOf(UpperCaseLetters) |->
        LET i == IndexIn(c, UpperCaseLetters) IN SubSeq(LowerCaseLetters, i, i)]

UpperCaseOf ==
    [c \in CharsOf(LowerCaseLetters) |->
        LET i == IndexIn(c, LowerCaseLetters) IN SubSeq(UpperCaseLetters, i, i)]

toLowerCase(s) == ReplaceChars(LowerCaseOf, s)

toUpperCase(s) == ReplaceChars(UpperCaseOf, s)

RECURSIVE TrimStart(_)
TrimStart(s) ==
    IF s # "" /\ Head(s) \in WhiteSpace THEN TrimStart(Tail(s)) ELSE s

RECURSIVE TrimEnd(_)
TrimEnd(s) ==
    IF s # "" /\ SubSeq(s, Len(s), Len(s)) \in WhiteSpace
    THEN TrimEnd(SubSeq(s, 1, Len(s) - 1))
    ELSE s

trim(s) == TrimEnd(TrimStart(s))

\* String.prototype.split(sep) for a one-character separator
split(s, sep) ==
    LET at == SelectSeq(Positions(s), LAMBDA i : SubSeq(s, i, i) = sep)
    IN Pieces(s, at, at)

\* Array.prototype.join(sep)
RECURSIVE join(_, _)
join(parts, sep) ==
    IF parts = <<>> THEN ""
    ELSE IF Len(parts) = 1 THEN parts[1]
    ELSE LET h == Len(parts) \div 2
         IN join(SubSeq(parts, 1, h), sep) \o sep
            \o join(SubSeq(parts, h + 1, Len(parts)), sep)

----------------------------------------------------------------------------
(* parseUrlSelectorConfig *)

\* text.match(/^[A-Z ]+$/)
PropertyNameChars == CharsOf(UpperCaseLetters) \cup {" "}

isPropertyName(line) ==
    /\ line # ""
    /\ \A i \in 1..Len(line) : SubSeq(line, i, i) \in PropertyNameChars

\* text.replace(/\r/g, '')
RemoveCarriageReturns(s) == ReplaceChars("\r" :> "", s)

\* position i of s lies in a match of /={2,}/: an '=' with an '=' beside it
InSeparator(s, i) ==
    /\ i \in 1..Len(s)
    /\ SubSeq(s, i, i) = "="
    /\ \/ i > 1 /\ SubSeq(s, i - 1, i - 1) = "="
       \/ i < Len(s) /\ SubSeq(s, i + 1, i + 1) = "="

\* s.split(/={2,}/g): every maximal run of two or more '=' separates
SplitOnSeparators(s) ==
    Pieces(s,
           SelectSeq(Positions(s),
                     LAMBDA i : InSeparator(s, i) /\ ~InSeparator(s, i - 1)),
           SelectSeq(Positions(s),
                     LAMBDA i : InSeparator(s, i) /\ ~InSeparator(s, i + 1)))

SplitBlocks(s) == SplitOnSeparators(RemoveCarriageReturns(s))

\* block.split('\n').map((l) => l.trim()).filter((l) => l)
BlockLines(block) ==
    LET lines == split(block, "\n")
    IN SelectSeq([i \in 1..Len(lines) |-> trim(lines[i])], LAMBDA l : l # "")

\* lines.findIndex(isPropertyName), 0-based, -1 when there is none
findIndexOfPropertyName(lines) ==
    IF \E i \in 1..Len(lines) : isPropertyName(lines[i])
    THEN (CHOOSE i \in 1..Len(lines) :
             /\ isPropertyName(lines[i])
             /\ \A j \in 1..(i - 1) : ~isPropertyName(lines[j])) - 1
    ELSE -1

\* word.charAt(0).toUpperCase() + word.substr(1).toLowerCase()
Capitalize(word) ==
    IF word = "" THEN ""
    ELSE toUpperCase(Head(word)) \o toLowerCase(Tail(word))

\* UPPER CASE header to camelCase property name
upperCaseToCamelCase(line) ==
    LET words == split(line, " ")
    IN join([i \in 1..Len(words) |->
                IF i = 1 THEN toLowerCase(words[i]) ELSE Capitalize(words[i])], "")

\* "let prop" before any header has been read
Undefined == ""

\* const raw: StaticTheme = {url}; the selector lists are the other keys
NewTheme(url) == [url |-> url, noCommon |-> FALSE, sel |-> <<>>]

\* one iteration of lines.slice(url.length).forEach; st = [raw, prop, err]
ParseLine(st, line) ==
    IF st.err # "" THEN st
    ELSE IF isPropertyName(line) THEN
        LET prop == upperCaseToCamelCase(line)
        IN IF prop = "noCommon"
           THEN [st EXCEPT !.prop = prop, !.raw.noCommon = TRUE]
           ELSE IF prop = "url"
           THEN [st EXCEPT !.prop = prop, !.raw.url = <<>>]
           ELSE [st EXCEPT !.prop = prop, !.raw.sel = (prop :> <<>>) @@ @]
    ELSE \* raw[prop].push(line)
        IF st.prop = Undefined \/ st.prop = "noCommon"
        THEN [st EXCEPT !.err = "TypeError"]
        ELSE IF st.prop = "url"
        THEN [st EXCEPT !.raw.url = Append(@, line)]
        ELSE [st EXCEPT !.raw.sel[st.prop] = Append(@, line)]

\* the lines in order, first half then second half (a shallow recursion);
\* a throw ends the loop
RECURSIVE ParseLines(_, _)
ParseLines(st, lines) ==
    IF lines = <<>> \/ st.err # "" THEN st
    ELSE IF Len(lines) = 1 THEN ParseLine(st, lines[1])
    ELSE LET h == Len(lines) \div 2
             half == ParseLines(st, SubSeq(lines, 1, h))
         IN IF half.err # "" THEN half
            ELSE ParseLines(half, SubSeq(lines, h + 1, Len(lines)))

\* body of blocks.forEach: the record of one block, or the error it throws
ParseBlock(block) ==
    LET lines == BlockLines(block)
        found == findIndexOfPropertyName(lines)
        firstCommandIndex == IF found < 0 THEN Len(lines) ELSE found
        url == SubSeq(lines, 1, firstCommandIndex)
    IN ParseLines([raw |-> NewTheme(url), prop |-> Undefined, err |-> ""],
                  SubSeq(lines, Len(url) + 1, Len(lines)))

getCommonTheme(themes) == themes[1]

\* common && common.url && common.url[0] === '*'
HasCommonTheme(themes) ==
    /\ Len(themes) >= 1
    /\ Len(getCommonTheme(themes).url) >= 1
    /\ getCommonTheme(themes).url[1] = "*"

parseUrlSelectorConfig(t) ==
    LET blocks == SplitBlocks(t)
        results == [i \in 1..Len(blocks) |-> ParseBlock(blocks[i])]
        themes == [i \in 1..Len(blocks) |-> results[i].raw]
    IN IF \E i \in 1..Len(results) : results[i].err # ""
       THEN [status |-> "TypeError", themes |-> <<>>]
       ELSE IF ~HasCommonTheme(themes)
       THEN [status |-> "MalformedCatalogue", themes |-> <<>>]
       ELSE [status |-> "ok", themes |-> themes]

NotCalled == [status |-> "none", themes |-> <<>>]

----------------------------------------------------------------------------
(* Array.prototype.sort: stable.  compare[i, j] is the comparator's result  *)
(* for the elements at positions i and j; the result lists the positions    *)
(* in sorted order.                                                         *)

\* position x goes behind every position whose element compares <= 0 with it
RECURSIVE InsertSorted(_, _, _)
InsertSorted(compare, sorted, x) ==
    IF sorted = <<>> THEN <<x>>
    ELSE IF compare[Head(sorted), x] <= 0
         THEN <<Head(sorted)>> \o InsertSorted(compare, Tail(sorted), x)
    ELSE <<x>> \o sorted

RECURSIVE SortFrom(_, _, _)
SortFrom(compare, done, todo) ==
    IF todo = <<>> THEN done
    ELSE SortFrom(compare, InsertSorted(compare, done, Head(todo)), Tail(todo))

sort(n, compare) == SortFrom(compare, <<>>, [i \in 1..n |-> i])

----------------------------------------------------------------------------
(* formatUrlSelectorConfig *)

staticThemeProps == <<
    "noCommon",
    "neutralBg", "neutralBgActive", "neutralText", "neutralTextActive", "neutralBorder",
    "redBg", "redBgActive", "redText", "redTextActive", "redBorder",
    "greenBg", "greenBgActive", "greenText", "greenTextActive", "greenBorder",
    "blueBg", "blueBgActive", "blueText", "blueTextActive", "blueBorder",
    "fadeBg", "fadeText", "transparentBg",
    "noImage", "invert" >>

\* a plausible slip: the header is only upper-cased, no space is inserted
camelCaseToUpperCaseNoSpaces(t) == trim(toUpperCase(t))

\* text.replace(/([A-Z])/g, ' $1').toUpperCase().trim()
\* ' $1' for every [A-Z]
SpaceBefore == [c \in CharsOf(UpperCaseLetters) |-> " " \o c]

camelCaseToUpperCase(t) == trim(toUpperCase(ReplaceChars(SpaceBefore, t)))

\* [0-9a-z\.]
SortKeyChars == CharsOf(Digits \o LowerCaseLetters \o ".")

\* url[0].toLowerCase().replace(/[^0-9a-z\.]/g, '')
SortKey(theme) == KeepChars(SortKeyChars, toLowerCase(theme.url[1]))

\* order of the characters a sort key can hold
CollationOrder == "." \o Digits \o LowerCaseLetters

\* a.localeCompare(b) on sort keys: -1, 0 or 1
RECURSIVE localeCompare(_, _)
localeCompare(a, b) ==
    IF a = "" /\ b = "" THEN 0
    ELSE IF a = "" THEN -1
    ELSE IF b = "" THEN 1
    ELSE IF Head(a) = Head(b) THEN localeCompare(Tail(a), Tail(b))
    ELSE IF IndexIn(Head(a), CollationOrder) < IndexIn(Head(b), CollationOrder)
         THEN -1
    ELSE 1

\* a plausible slip: the comparator's operands swapped
CompareThemesSwapped(a, b) == localeCompare(SortKey(b), SortKey(a))

\* the comparator handed to sort
CompareThemes(a, b) == localeCompare(SortKey(a), SortKey(b))

SeparatorLength == 32

RECURSIVE Repeat(_, _)
Repeat(c, n) == IF n = 0 THEN "" ELSE c \o Repeat(c, n - 1)

\* lines pushed by staticThemeProps.forEach for one property
PropLines(theme, prop) ==
    LET isList == prop \in DOMAIN theme.sel
    IN IF (prop = "noCommon" /\ theme.noCommon)
          \/ (isList /\ Len(theme.sel[prop]) > 0)
       THEN <<"", camelCaseToUpperCase(prop)>>
            \o (IF isList THEN theme.sel[prop] ELSE <<>>)
       ELSE <<>>

RECURSIVE Flatten(_)
Flatten(seqs) ==
    IF seqs = <<>> THEN <<>>
    ELSE IF Len(seqs) = 1 THEN seqs[1]
    ELSE LET h == Len(seqs) \div 2
         IN Flatten(SubSeq(seqs, 1, h)) \o Flatten(SubSeq(seqs, h + 1, Len(seqs)))

\* lines pushed by themes.forEach for the theme at position i (1-based) of n
ThemeLines(theme, i, n) ==
    theme.url
    \o Flatten([k \in 1..Len(staticThemeProps) |-> PropLines(theme, staticThemeProps[k])])
    \o (IF i < n THEN <<"", Repeat("=", SeparatorLength), "">> ELSE <<>>)

\* staticThemes.slice().sort(...)
SortThemes(themes) ==
    LET order == sort(Len(themes),
                      [i \in 1..Len(themes), j \in 1..Len(themes) |->
                          CompareThemes(themes[i], themes[j])])
    IN [k \in 1..Len(themes) |-> themes[order[k]]]

formatUrlSelectorConfig(themes) ==
    \* a.url[0].toLowerCase() throws when the comparator meets an empty url list
    IF Len(themes) >= 2 /\ \E i \in 1..Len(themes) : themes[i].url = <<>>
    THEN [status |-> "TypeError", text |-> ""]
    ELSE LET sorted == SortThemes(themes)
             lines == Flatten([i \in 1..Len(sorted) |->
                                  ThemeLines(sorted[i], i, Len(sorted))]) \o <<"">>
         IN [status |-> "ok", text |-> join(lines, "\n")]

NotFormatted == [status |-> "none", text |-> ""]

----------------------------------------------------------------------------
(* getThemeFor *)

\* external matcher: some pattern of the list matches the page url
isUrlInList(acc, patterns) == \E i \in 1..Len(patterns) : patterns[i] \in acc

\* themes.slice(1).map(...): source index i is position i + 1 here
Specificities(acc, themes) ==
    [k \in 1..(Len(themes) - 1) |->
        [specificity |-> IF isUrlInList(acc, themes[k + 1].url)
                         THEN Len(themes[k + 1].url[1]) ELSE 0,
         theme |-> k + 1]]

\* a plausible slip: ascending instead of descending
CompareSpecificityAscending(a, b) == a.specificity - b.specificity

\* (a, b) => b.specificity - a.specificity
CompareSpecificity(a, b) == b.specificity - a.specificity

Reverse(s) == [i \in 1..Len(s) |-> s[Len(s) + 1 - i]]

\* a sort that is not stable: entries that compare equal come out reversed
SortBySpecificityUnstable(entries) ==
    LET reversed == Reverse(entries)
        order == sort(Len(entries),
                      [i \in 1..Len(entries), j \in 1..Len(entries) |->
                          CompareSpecificity(reversed[i], reversed[j])])
    IN [k \in 1..Len(entries) |-> reversed[order[k]]]

\* .sort((a, b) => b.specificity - a.specificity)
SortBySpecificity(entries) ==
    LET order == sort(Len(entries),
                      [i \in 1..Len(entries), j \in 1..Len(entries) |->
                          CompareSpecificity(entries[i], entries[j])])
    IN [k \in 1..Len(entries) |-> entries[order[k]]]

\* the position in themes of the record returned, 0 for null
getThemeFor(acc, themes) ==
    LET sortedBySpecificity ==
            SortBySpecificity(SelectSeq(Specificities(acc, themes),
                                        LAMBDA e : e.specificity > 0))
    IN IF Len(sortedBySpecificity) = 0 THEN 0 ELSE sortedBySpecificity[1].theme

----------------------------------------------------------------------------
(* Palettes and colour arithmetic *)

darkTheme == [
    neutralBg |-> <<16, 20, 23>>,
    neutralText |-> <<167, 158, 139>>,
    redBg |-> <<64, 12, 32>>,
    redText |-> <<247, 142, 102>>,
    greenBg |-> <<32, 64, 48>>,
    greenText |-> <<128, 204, 148>>,
    blueBg |-> <<32, 48, 64>>,
    blueText |-> <<128, 182, 204>>,
    fadeBg |-> <<16, 20, 23, "0.5">>,
    fadeText |-> <<167, 158, 139, "0.5">> ]

lightTheme == [
    neutralBg |-> <<255, 242, 228>>,
    neutralText |-> <<0, 0, 0>>,
    redBg |-> <<255, 85, 170>>,
    redText |-> <<140, 14, 48>>,
    greenBg |-> <<192, 255, 170>>,
    greenText |-> <<0, 128, 0>>,
    blueBg |-> <<173, 215, 229>>,
    blueText |-> <<28, 16, 171>>,
    fadeBg |-> <<0, 0, 0, "0.5">>,
    fadeText |-> <<0, 0, 0, "0.5">> ]

\* rgb([r, g, b, a]); the alpha component is kept as its decimal text
rgb(color) ==
    IF Len(color) = 4
    THEN "rgba(" \o ToString(color[1]) \o ", " \o ToString(color[2]) \o ", "
         \o ToString(color[3]) \o ", " \o color[4] \o ")"
    ELSE "rgb(" \o ToString(color[1]) \o ", " \o ToString(color[2]) \o ", "
         \o ToString(color[3]) \o ")"

\* a plausible slip: the blend truncated instead of rounded
mixTruncated(color1, color2, t) ==
    [i \in 1..Len(color1) |->
        (color1[i] * (1000 - t) + color2[i] * t) \div 1000]

\* Math.round(c * (1 - t) + color2[i] * t), t given in thousandths
mix(color1, color2, t) ==
    [i \in 1..Len(color1) |->
        (color1[i] * (1000 - t) + color2[i] * t + 500) \div 1000]

\* mx, in thousandths
mxBgHover == 75
mxBgActive == 100
mxFgHover == 250
mxFgActive == 500
mxBorder == 500

\* external colour filter: brightness scaling, inversion when mode is 1
applyFilterToColor(color, cfg) ==
    [i \in 1..Len(color) |->
        IF i = 4 THEN color[i]
        ELSE LET scaled == (color[i] * cfg.brightness + 50) \div 100
                 clamped == IF scaled > 255 THEN 255 ELSE scaled
             IN IF cfg.mode = 1 THEN 255 - clamped ELSE clamped]

\* external font rule: one declaration block
createTextRule(cfg) ==
    "{ "
    \o (IF cfg.useFont THEN "font-family: Open Sans !important; " ELSE "")
    \o (IF cfg.textStroke > 0
        THEN "-webkit-text-stroke: " \o ToString(cfg.textStroke) \o "px !important; "
        ELSE "")
    \o "}"

----------------------------------------------------------------------------
(* Rule table *)

Null == <<>>

\* the three selector rewrites of the table
modifySelector(modify, s) ==
    CASE modify = "hover" -> s \o ":hover"
      [] modify = "active" -> s \o ":active, " \o s \o ":focus"
      [] OTHER -> s

\* one table entry: selectors of `selectors`, declaring `property` as `value`
RuleGen(selectors, property, value, modify) ==
    [selectors |-> selectors, property |-> property, value |-> value,
     modify |-> modify]

Role(role) == [kind |-> "role", base |-> role]
MixAccent(role, accent, t) == [kind |-> "mix", base |-> role, accent |-> accent, t |-> t]
MixRoles(bg, fg, t) == [kind |-> "mixRoles", base |-> bg, other |-> fg, t |-> t]
Literal(v) == [kind |-> "literal", text |-> v]

\* the nine entries of one colour family
FamilyRules(name, bgAccent, textAccent) == <<
    RuleGen(name \o "Bg", "background-color", Role(name \o "Bg"), ""),
    RuleGen(name \o "BgActive", "background-color", Role(name \o "Bg"), ""),
    RuleGen(name \o "BgActive", "background-color",
            MixAccent(name \o "Bg", bgAccent, mxBgHover), "hover"),
    RuleGen(name \o "BgActive", "background-color",
            MixAccent(name \o "Bg", bgAccent, mxBgActive), "active"),
    RuleGen(name \o "Text", "color", Role(name \o "Text"), ""),
    RuleGen(name \o "TextActive", "color", Role(name \o "Text"), ""),
    RuleGen(name \o "TextActive", "color",
            MixAccent(name \o "Text", textAccent, mxFgHover), "hover"),
    RuleGen(name \o "TextActive", "color",
            MixAccent(name \o "Text", textAccent, mxFgActive), "active"),
    RuleGen(name \o "Border", "border-color",
            MixRoles(name \o "Bg", name \o "Text", mxBorder), "") >>

ruleGenerators ==
    FamilyRules("neutral", <<255, 255, 255>>, <<255, 255, 255>>)
    \o FamilyRules("red", <<255, 0, 64>>, <<255, 255, 0>>)
    \o FamilyRules("green", <<128, 255, 182>>, <<182, 255, 224>>)
    \o FamilyRules("blue", <<0, 128, 255>>, <<182, 224, 255>>)
    \o << RuleGen("fadeBg", "background-color", Role("fadeBg"), ""),
          RuleGen("fadeText", "color", Role("fadeText"), ""),
          RuleGen("transparentBg", "background-color", Literal("transparent"), ""),
          RuleGen("noImage", "background-image", Literal("none"), ""),
          RuleGen("invert", "filter", Literal("invert(100%) hue-rotate(180deg)"), "") >>

\* generateDeclarations(themeColors) of an entry: its single declaration
Declaration(gen, themeColors) ==
    gen.property \o ": " \o
    CASE gen.value.kind = "role" -> rgb(themeColors[gen.value.base])
      [] gen.value.kind = "mix" ->
            rgb(mix(themeColors[gen.value.base], gen.value.accent, gen.value.t))
      [] gen.value.kind = "mixRoles" ->
            rgb(mix(themeColors[gen.value.base], themeColors[gen.value.other],
                    gen.value.t))
      [] OTHER -> gen.value.text

\* the function createRuleGen returns, applied: Null or <<block text>>
createRuleGen(gen, theme, themeColors) ==
    IF gen.selectors \notin DOMAIN theme.sel \/ Len(theme.sel[gen.selectors]) = 0
    THEN Null
    ELSE LET selectors == theme.sel[gen.selectors]
             lines == [i \in 1..Len(selectors) |->
                          modifySelector(gen.modify, selectors[i])
                          \o (IF i < Len(selectors) THEN "," ELSE " {")]
                      \o <<"    " \o Declaration(gen, themeColors) \o " !important;">>
                      \o <<"}">>
         IN <<join(lines, "\n")>>

\* ruleGenerators.map((gen) => gen(theme, themeColors))
RuleLines(theme, themeColors) ==
    [k \in 1..Len(ruleGenerators) |-> createRuleGen(ruleGenerators[k], theme, themeColors)]

----------------------------------------------------------------------------
(* createStaticStylesheet *)

\* the palette filtered with the mode flag neutralized
ThemeColors(cfg) ==
    LET srcTheme == IF cfg.mode = 1 THEN darkTheme ELSE lightTheme
    IN [prop \in DOMAIN srcTheme |->
           applyFilterToColor(srcTheme[prop], [cfg EXCEPT !.mode = 0])]

\* a plausible slip: noCommon is not consulted
CommonLinesAlways(themes, site, themeColors) ==
    <<<<"/* Common theme */">>>> \o RuleLines(getCommonTheme(themes), themeColors)

\* if (!siteTheme || !siteTheme.noCommon)
CommonLines(themes, site, themeColors) ==
    IF site = 0 \/ ~themes[site].noCommon
    THEN <<<<"/* Common theme */">>>> \o RuleLines(getCommonTheme(themes), themeColors)
    ELSE <<>>

\* if (siteTheme)
SiteLines(themes, site, themeColors) ==
    IF site # 0
    THEN <<<<"/* Theme for " \o join(themes[site].url, " ") \o " */">>>>
         \o RuleLines(themes[site], themeColors)
    ELSE <<>>

\* a plausible slip: the text stroke is not consulted
FontLinesUseFontOnly(cfg) ==
    IF cfg.useFont
    THEN <<<<"/* Font */">>, <<"* " \o createTextRule(cfg)>>>>
    ELSE <<>>

\* if (config.useFont || config.textStroke > 0)
FontLines(cfg) ==
    IF cfg.useFont \/ cfg.textStroke > 0
    THEN <<<<"/* Font */">>, <<"* " \o createTextRule(cfg)>>>>
    ELSE <<>>

\* lines.filter((ln) => ln): null and the empty string are falsy
Truthy(ln) == ln # Null /\ ln[1] # ""

createStaticStylesheet(cfg, acc, themes) ==
    IF Len(themes) = 0
    THEN \* gen(undefined, theme) reads a property of undefined
         [status |-> "TypeError", text |-> ""]
    ELSE LET themeColors == ThemeColors(cfg)
             site == getThemeFor(acc, themes)
             lines == CommonLines(themes, site, themeColors)
                      \o SiteLines(themes, site, themeColors)
                      \o FontLines(cfg)
         IN [status |-> "ok",
             text |-> LET kept == SelectSeq(lines, Truthy)
                      IN join([i \in 1..Len(kept) |-> kept[i][1]], "\n")]

NotGenerated == [status |-> "none", text |-> ""]

----------------------------------------------------------------------------
(* Inputs *)

SeqsUpTo(S, n) == UNION {[1..k -> S] : k \in 0..n}

\* lines a catalogue text is typed from: patterns, headers, selectors,
\* separators (on a line and inside one), a CRLF ending, a blank line
RawLines == {"*", "*\r", "  a.b", "==", "*===x", "NO COMMON", "NEUTRAL BG",
             "URL", "body", ""}

Texts == {join(ls, "\n") : ls \in SeqsUpTo(RawLines, MaxLines)}

Theme(url, noCommon, sel) == [url |-> url, noCommon |-> noCommon, sel |-> sel]

\* records catalogues are assembled from; the one without patterns is what
\* parseUrlSelectorConfig returns for a block that starts with a header
ThemeUniverse == {
    Theme(<<"*">>, FALSE, "neutralBg" :> <<"body">>),
    Theme(<<"*">>, FALSE, <<>>),
    Theme(<<"a.b">>, TRUE,
          ("neutralBgActive" :> <<"a", ".btn b">>) @@ ("invert" :> <<"img">>)),
    Theme(<<"a.b">>, FALSE, "neutralText" :> <<"a[x=y]">>),
    Theme(<<"A-b">>, FALSE, "noImage" :> <<>>),
    Theme(<<"x.b.c", "x.y">>, FALSE,
          [prop \in {staticThemeProps[k] : k \in 2..Len(staticThemeProps)} |->
              <<"header">>]),
    Theme(<<"-">>, TRUE, <<>>),
    Theme(<<>>, FALSE, <<>>) }

Catalogues == SeqsUpTo(ThemeUniverse, MaxThemes)

\* patterns the matcher may accept for the page url
Patterns == {"*", "a.b", "A-b", "x.y"}

GenThemeUniverse == {
    Theme(<<"*">>, FALSE,
          ("neutralBg" :> <<"body">>) @@ ("neutralBgActive" :> <<"a">>)),
    Theme(<<"*">>, FALSE, <<>>),
    Theme(<<"a.b">>, TRUE,
          ("neutralBgActive" :> <<".btn", "a">>) @@ ("redTextActive" :> <<"em">>)
          @@ ("blueBorder" :> <<"hr">>) @@ ("invert" :> <<"img">>)),
    Theme(<<"x.b.c", "x.y">>, FALSE,
          ("neutralBg" :> <<"header">>) @@ ("noImage" :> <<>>)) }

GenCatalogues == SeqsUpTo(GenThemeUniverse, MaxGenThemes)

GenPatterns == {"*", "a.b", "x.y"}

Configs == [mode : {0, 1}, brightness : {50, 100}, useFont : BOOLEAN,
            textStroke : {0, 1}]

NoConfig == [mode |-> 0, brightness |-> 100, useFont |-> FALSE, textStroke |-> 0]

----------------------------------------------------------------------------
(* State machine: one call per behaviour, its arguments drawn by Init *)

InitParse ==
    /\ pc = "parse"
    /\ text \in Texts
    /\ parsed = NotCalled
    /\ staticThemes = <<>>
    /\ formatted = NotFormatted
    /\ accepted = {}
    /\ config = NoConfig
    /\ siteTheme = 0
    /\ css = NotGenerated

InitCodec ==
    /\ pc = "format"
    /\ text = ""
    /\ parsed = NotCalled
    /\ staticThemes \in Catalogues
    /\ formatted = NotFormatted
    /\ accepted = {}
    /\ config = NoConfig
    /\ siteTheme = 0
    /\ css = NotGenerated

InitResolve ==
    /\ pc = "resolve"
    /\ text = ""
    /\ parsed = NotCalled
    /\ staticThemes \in Catalogues
    /\ formatted = NotFormatted
    /\ accepted \in SUBSET Patterns
    /\ config = NoConfig
    /\ siteTheme = 0
    /\ css = NotGenerated

InitGen ==
    /\ pc = "generate"
    /\ text = ""
    /\ parsed = NotCalled
    /\ staticThemes \in GenCatalogues
    /\ formatted = NotFormatted
    /\ accepted \in SUBSET GenPatterns
    /\ config \in Configs
    /\ siteTheme = 0
    /\ css = NotGenerated

\* parseUrlSelectorConfig(text)
ParseText ==
    /\ pc = "parse"
    /\ parsed' = parseUrlSelectorConfig(text)
    /\ pc' = "parsed"
    /\ UNCHANGED <<text, staticThemes, formatted, accepted, config, siteTheme, css>>

\* formatUrlSelectorConfig(staticThemes)
FormatThemes ==
    /\ pc = "format"
    /\ formatted' = formatUrlSelectorConfig(staticThemes)
    /\ pc' = "formatted"
    /\ UNCHANGED <<text, parsed, staticThemes, accepted, config, siteTheme, css>>

\* parseUrlSelectorConfig(formatUrlSelectorConfig(staticThemes))
ParseFormatted ==
    /\ pc = "formatted"
    /\ formatted.status = "ok"
    /\ text' = formatted.text
    /\ parsed' = parseUrlSelectorConfig(formatted.text)
    /\ pc' = "reparsed"
    /\ UNCHANGED <<staticThemes, formatted, accepted, config, siteTheme, css>>

\* getThemeFor(url, staticThemes)
ResolveTheme ==
    /\ pc = "resolve"
    /\ siteTheme' = getThemeFor(accepted, staticThemes)
    /\ pc' = "resolved"
    /\ UNCHANGED <<text, parsed, staticThemes, formatted, accepted, config, css>>

\* createStaticStylesheet(config, url, staticThemes)
GenerateStylesheet ==
    /\ pc = "generate"
    /\ css' = createStaticStylesheet(config, accepted, staticThemes)
    /\ siteTheme' = getThemeFor(accepted, staticThemes)
    /\ pc' = "generated"
    /\ UNCHANGED <<text, parsed, staticThemes, formatted, accepted, config>>

NextCodec == FormatThemes \/ ParseFormatted

SpecParse == InitParse /\ [][ParseText]_vars
SpecCodec == InitCodec /\ [][NextCodec]_vars
SpecResolve == InitResolve /\ [][ResolveTheme]_vars
SpecGen == InitGen /\ [][GenerateStylesheet]_vars

Init == InitParse \/ InitCodec \/ InitResolve \/ InitGen

Next ==
    \/ ParseText
    \/ FormatThemes
    \/ ParseFormatted
    \/ ResolveTheme
    \/ GenerateStylesheet

Spec == Init /\ [][Next]_vars

----------------------------------------------------------------------------
(* Vocabulary of the properties *)

Range(f) == {f[i] : i \in DOMAIN f}

Contains(s, sub) ==
    \E i \in 1..(Len(s) - Len(sub) + 1) : SubSeq(s, i, i + Len(sub) - 1) = sub

StartsWith(s, prefix) ==
    Len(s) >= Len(prefix) /\ SubSeq(s, 1, Len(prefix)) = prefix

\* a selector list, absent and empty alike
Sel(theme, prop) == IF prop \in DOMAIN theme.sel THEN theme.sel[prop] ELSE <<>>

\* the selector-list properties of the fixed set
SelectorProps == {staticThemeProps[k] : k \in 2..Len(staticThemeProps)}

\* the records the blocks of a text hold, each as far as its block was read
TextRecords(t) ==
    LET blocks == SplitBlocks(t)
    IN [i \in 1..Len(blocks) |-> ParseBlock(blocks[i]).raw]

TextHasCommonRecord(t) ==
    \E i \in 1..Len(TextRecords(t)) :
        TextRecords(t)[i].url # <<>> /\ TextRecords(t)[i].url[1] = "*"

Parsed == pc \in {"parsed", "reparsed"}

----------------------------------------------------------------------------
(* C1 *)

\* C1: parseUrlSelectorConfig raises MalformedCatalogue whenever no record of
\* the text has url[0] = "*", and a catalogue it returns has url[0] = "*" at
\* index 0.
C1_CommonThemeRequired ==
    Parsed =>
        /\ ~TextHasCommonRecord(text) => parsed.status = "MalformedCatalogue"
        /\ parsed.status = "ok" => parsed.themes[1].url[1] = "*"

----------------------------------------------------------------------------
(* C2 *)

WellFormedLine(l) ==
    /\ l # ""
    /\ trim(l) = l
    /\ ~isPropertyName(l)
    /\ ~Contains(l, "==")
    /\ ~Contains(l, "\n")
    /\ ~Contains(l, "\r")

WellFormedTheme(theme) ==
    /\ theme.url # <<>>
    /\ DOMAIN theme.sel \subseteq SelectorProps
    /\ \A l \in Range(theme.url) : WellFormedLine(l)
    /\ \A prop \in DOMAIN theme.sel :
          \A l \in Range(theme.sel[prop]) : WellFormedLine(l)

WellFormedCatalogue(themes) ==
    /\ Len(themes) >= 1
    /\ \A i \in 1..Len(themes) : WellFormedTheme(themes[i])
    /\ themes[1].url = <<"*">>
    /\ \A i, j \in 1..Len(themes) :
          i < j => localeCompare(SortKey(themes[i]), SortKey(themes[j])) <= 0

SameTheme(a, b) ==
    /\ a.url = b.url
    /\ a.noCommon = b.noCommon
    /\ \A prop \in SelectorProps : Sel(a, prop) = Sel(b, prop)

\* C2: for a well-formed catalogue in canonical order, parsing the formatted
\* text returns a catalogue of the same length whose records have the same
\* url list, the same noCommon and the same non-empty selector lists.
C2_RoundTrip ==
    (pc = "reparsed" /\ WellFormedCatalogue(staticThemes)) =>
        /\ parsed.status = "ok"
        /\ Len(parsed.themes) = Len(staticThemes)
        /\ \A i \in 1..Len(staticThemes) :
              SameTheme(parsed.themes[i], staticThemes[i])

C2_Witness ==
    /\ pc = "reparsed"
    /\ WellFormedCatalogue(staticThemes)
    /\ Len(staticThemes) = 3
    /\ \E i \in 1..Len(staticThemes) : staticThemes[i].noCommon
    /\ \E i \in 1..Len(staticThemes) : Len(staticThemes[i].url) = 2
    /\ \E i \in 1..Len(staticThemes) :
          Len(Sel(staticThemes[i], "neutralBgActive")) = 2

----------------------------------------------------------------------------
(* C3, C4 *)

\* the records other than index 0 whose url list the matcher accepts
Matching == {i \in 2..Len(staticThemes) : isUrlInList(accepted, staticThemes[i].url)}

PrimaryLength(i) == Len(staticThemes[i].url[1])

\* C3: getThemeFor returns none when no record other than index 0 is
\* accepted, and otherwise an accepted record of index >= 1 whose url[0] is
\* the longest among the accepted ones; index 0 is never returned.
C3_MostSpecific ==
    pc = "resolved" =>
        /\ Matching = {} => siteTheme = 0
        /\ Matching # {} =>
              /\ siteTheme \in Matching
              /\ \A j \in Matching : PrimaryLength(j) <= PrimaryLength(siteTheme)
        /\ siteTheme # 1

C3_Witness ==
    /\ pc = "resolved"
    /\ siteTheme = 3
    /\ 2 \in Matching
    /\ PrimaryLength(2) < PrimaryLength(3)
    /\ isUrlInList(accepted, staticThemes[1].url)

\* C4: among the accepted records that share the longest url[0], getThemeFor
\* returns the one of smallest index.
C4_TieBreak ==
    (pc = "resolved" /\ siteTheme # 0) =>
        \A j \in Matching :
            PrimaryLength(j) = PrimaryLength(siteTheme) => siteTheme <= j

C4_Witness ==
    /\ pc = "resolved"
    /\ siteTheme = 2
    /\ 3 \in Matching
    /\ PrimaryLength(3) = PrimaryLength(2)
    /\ staticThemes[3] # staticThemes[2]

----------------------------------------------------------------------------
(* C5, C6, C7 *)

Generated == pc = "generated" /\ css.status = "ok"

CommonEmitted == siteTheme = 0 \/ ~staticThemes[siteTheme].noCommon

\* the rule blocks of a record: one per table entry, in table order, for the
\* entries whose selector list is not empty
Blocks(theme) ==
    LET entries == SelectSeq([k \in 1..Len(ruleGenerators) |-> ruleGenerators[k]],
                             LAMBDA gen : Sel(theme, gen.selectors) # <<>>)
    IN [k \in 1..Len(entries) |->
           createRuleGen(entries[k], theme, ThemeColors(config))[1]]

CommonSection == <<"/* Common theme */">> \o Blocks(staticThemes[1])

SiteSection ==
    <<"/* Theme for " \o join(staticThemes[siteTheme].url, " ") \o " */">>
    \o Blocks(staticThemes[siteTheme])

FontSection == <<"/* Font */", "* " \o createTextRule(config)>>

\* C5: the output holds the '/* Common theme */' line and the common
\* record's rule blocks exactly when no site record was resolved or the
\* resolved one has noCommon falsy; otherwise it opens with the site section.
C5_NoCommonSuppression ==
    Generated =>
        /\ ("/* Common theme */" \in Range(split(css.text, "\n"))) <=> CommonEmitted
        /\ CommonEmitted => StartsWith(css.text, join(CommonSection, "\n"))
        /\ ~CommonEmitted => StartsWith(css.text, join(SiteSection, "\n"))

C5_Witness ==
    /\ Generated
    /\ siteTheme # 0
    /\ staticThemes[siteTheme].noCommon
    /\ Blocks(staticThemes[1]) # <<>>
    /\ ~Contains(css.text, "body")

\* C6: the output is the common section (when emitted), then the site
\* section (exactly when a site record was resolved), then the font section
\* (exactly when useFont or textStroke > 0), joined by newlines.
C6_SectionOrder ==
    Generated =>
        css.text = join((IF CommonEmitted THEN CommonSection ELSE <<>>)
                        \o (IF siteTheme # 0 THEN SiteSection ELSE <<>>)
                        \o (IF config.useFont \/ config.textStroke > 0
                            THEN FontSection ELSE <<>>), "\n")

C6_Witness ==
    /\ Generated
    /\ CommonEmitted
    /\ siteTheme # 0
    /\ ~config.useFont
    /\ config.textStroke > 0
    /\ Blocks(staticThemes[1]) # <<>>
    /\ "noImage" \in DOMAIN staticThemes[siteTheme].sel
    /\ Len(Blocks(staticThemes[siteTheme])) = 1

\* the integer nearest to num / den, halves upwards
RoundHalfUp(num, den) ==
    CHOOSE n \in 0..255 : 2 * den * n - den <= 2 * num /\ 2 * num < 2 * den * n + den

\* t of a mixing entry, in thousandths, as the claim lists them
ClaimedT(gen) ==
    IF gen.value.kind = "mixRoles" THEN 500
    ELSE IF gen.property = "background-color"
         THEN (IF gen.modify = "hover" THEN 75 ELSE 100)
    ELSE (IF gen.modify = "hover" THEN 250 ELSE 500)

ClaimedColor(gen) ==
    LET base == ThemeColors(config)[gen.value.base]
        accent == IF gen.value.kind = "mixRoles"
                  THEN ThemeColors(config)[gen.value.other]
                  ELSE gen.value.accent
    IN [i \in 1..3 |->
           RoundHalfUp(base[i] * (1000 - ClaimedT(gen)) + accent[i] * ClaimedT(gen),
                       1000)]

\* the records whose rule blocks are in the output
Emitted == (IF CommonEmitted THEN {1} ELSE {}) \cup (IF siteTheme # 0 THEN {siteTheme} ELSE {})

MixingEntries == {k \in 1..Len(ruleGenerators) :
                     ruleGenerators[k].value.kind \in {"mix", "mixRoles"}}

\* C7: every hover, active and border block declares the colour
\* round(base * (1 - t) + accent * t) with the listed t; for neutralBg
\* [16, 20, 23] the neutralBgActive ':hover' block declares rgb(34, 38, 40).
C7_MixRounding ==
    Generated =>
        /\ \A k \in MixingEntries : \A i \in Emitted :
              LET gen == ruleGenerators[k]
                  selectors == Sel(staticThemes[i], gen.selectors)
              IN selectors # <<>> =>
                    Contains(css.text,
                             modifySelector(gen.modify, selectors[Len(selectors)])
                             \o " {\n    " \o gen.property \o ": "
                             \o rgb(ClaimedColor(gen)) \o " !important;\n}")
        /\ (/\ ThemeColors(config).neutralBg = <<16, 20, 23>>
            /\ \E i \in Emitted : Sel(staticThemes[i], "neutralBgActive") # <<>>)
           => Contains(css.text,
                       ":hover {\n    background-color: rgb(34, 38, 40) !important;\n}")

C7_Witness ==
    /\ Generated
    /\ ThemeColors(config).neutralBg = <<16, 20, 23>>
    /\ siteTheme # 0
    /\ Sel(staticThemes[siteTheme], "neutralBgActive") # <<>>
    /\ Sel(staticThemes[siteTheme], "blueBorder") # <<>>
    /\ Sel(staticThemes[siteTheme], "redTextActive") # <<>>
    /\ Contains(css.text, "a:hover {\n    background-color: rgb(34, 38, 40) !important;\n}")

----------------------------------------------------------------------------
(* C8 *)

\* C8: every record of a catalogue parseUrlSelectorConfig returns has a
\* non-empty url list.
C8_UrlListsNonEmpty ==
    (Parsed /\ parsed.status = "ok") =>
        \A i \in 1..Len(parsed.themes) : parsed.themes[i].url # <<>>

----------------------------------------------------------------------------
(* C9 *)

Orderings(n) ==
    {p \in [1..n -> 1..n] : \A i, j \in 1..n : i # j => p[i] # p[j]}

\* p lists the records by non-decreasing key, equal keys in input order
InKeyOrder(themes, p) ==
    LET key == [i \in 1..Len(themes) |-> SortKey(themes[i])]
    IN \A i, j \in 1..Len(themes) :
          i < j => LET c == localeCompare(key[p[i]], key[p[j]])
                   IN c < 0 \/ (c = 0 /\ p[i] < p[j])

\* the text that lists the records in the order p
TextInOrder(themes, p) ==
    join(Flatten([i \in 1..Len(themes) |-> ThemeLines(themes[p[i]], i, Len(themes))])
         \o <<"">>, "\n")

Formatted == pc \in {"formatted", "reparsed"} /\ formatted.status = "ok"

\* C9: formatUrlSelectorConfig emits the records by non-decreasing key, equal
\* keys in input order; when index 0 has url ["*"] and no url list is empty,
\* the common record is the first one of the text.
C9_FormatOrder ==
    Formatted =>
        /\ \E p \in Orderings(Len(staticThemes)) :
              /\ InKeyOrder(staticThemes, p)
              /\ formatted.text = TextInOrder(staticThemes, p)
        /\ (/\ Len(staticThemes) >= 1
            /\ staticThemes[1].url = <<"*">>
            /\ \A i \in 1..Len(staticThemes) : staticThemes[i].url # <<>>)
           => StartsWith(formatted.text,
                         join(ThemeLines(staticThemes[1], 1, Len(staticThemes)), "\n")
                         \o "\n")

C9_Witness ==
    /\ Formatted
    /\ Len(staticThemes) = 3
    /\ staticThemes[1].url = <<"*">>
    /\ staticThemes[2].url = <<"a.b">>
    /\ staticThemes[3].url = <<"-">>
    /\ StartsWith(formatted.text, "*\n")

----------------------------------------------------------------------------
(* C10 *)

\* C10: parseUrlSelectorConfig returns a catalogue or raises
\* MalformedCatalogue and fails in no other way.
C10_OnlyMalformedCatalogue ==
    Parsed => parsed.status \in {"ok", "MalformedCatalogue"}

====
